---- MODULE Spec2Model ----
(***************************************************************************)
(* Model of better-restic-client: the restic command builder and outcome   *)
(* classifier of src/src/main.rs and the HTTP handlers of src/src/web.rs.  *)
(*                                                                         *)
(* Three state machines share the configuration model and the builders:    *)
(*   BuildSpec  the two command builders applied to inputs drawn from the  *)
(*              bounded sets below;                                        *)
(*   CliSpec    one command-line run: main and execute_restic_backup;      *)
(*   Spec       the service: concurrent HTTP requests over the lock-       *)
(*              guarded in-memory configuration, the config file and the   *)
(*              restic child processes (FairSpec adds the scheduler's      *)
(*              fairness).                                                 *)
(***************************************************************************)
EXTENDS Integers, Sequences, FiniteSets, TLC

(***************************************************************************)
(* Bounds of the model.                                                    *)
(***************************************************************************)
MaxDirs == 2
MaxExcl == 2
MaxReq == 2

(***************************************************************************)
(* Option<T>: None is the empty sequence, Some(x) the one-element one.     *)
(***************************************************************************)
None == << >>
Some(x) == << x >>
IsSome(o) == Len(o) = 1
Unwrap(o) == o[1]

(***************************************************************************)
(* Text.  Strings are character sequences; SubSeq, Len and \o act on them. *)
(***************************************************************************)
Contains(s, t) ==
    \E i \in 1..(Len(s) - Len(t) + 1) : SubSeq(s, i, i + Len(t) - 1) = t

\* char::to_lowercase on the ASCII letters (other characters map to
\* themselves).  to_lowercase and EscapeDebug map a string character by
\* character; they split it in halves to keep the evaluation shallow.
LowerChar(c) ==
    CASE c = "A" -> "a" [] c = "B" -> "b" [] c = "C" -> "c" [] c = "D" -> "d"
      [] c = "E" -> "e" [] c = "F" -> "f" [] c = "G" -> "g" [] c = "H" -> "h"
      [] c = "I" -> "i" [] c = "J" -> "j" [] c = "K" -> "k" [] c = "L" -> "l"
      [] c = "M" -> "m" [] c = "N" -> "n" [] c = "O" -> "o" [] c = "P" -> "p"
      [] c = "Q" -> "q" [] c = "R" -> "r" [] c = "S" -> "s" [] c = "T" -> "t"
      [] c = "U" -> "u" [] c = "V" -> "v" [] c = "W" -> "w" [] c = "X" -> "x"
      [] c = "Y" -> "y" [] c = "Z" -> "z" [] OTHER -> c

RECURSIVE to_lowercase(_)
to_lowercase(s) ==
    IF Len(s) = 0 THEN ""
    ELSE IF Len(s) = 1 THEN LowerChar(s)
    ELSE LET h == Len(s) \div 2
         IN  to_lowercase(SubSeq(s, 1, h)) \o
             to_lowercase(SubSeq(s, h + 1, Len(s)))

IsSpace(c) == c \in {" ", "\n", "\t", "\r"}

RECURSIVE trim_start(_)
trim_start(s) ==
    IF Len(s) > 0 /\ IsSpace(SubSeq(s, 1, 1))
    THEN trim_start(SubSeq(s, 2, Len(s))) ELSE s

RECURSIVE trim_end(_)
trim_end(s) ==
    IF Len(s) > 0 /\ IsSpace(SubSeq(s, Len(s), Len(s)))
    THEN trim_end(SubSeq(s, 1, Len(s) - 1)) ELSE s

trim(s) == trim_end(trim_start(s))

Digit(d) == SubSeq("0123456789", d + 1, d + 1)

\* Display of an unsigned integer.
RECURSIVE NatStr(_)
NatStr(n) == IF n < 10 THEN Digit(n) ELSE NatStr(n \div 10) \o Digit(n % 10)

\* {:?} of a string or path: quoted, with quotes and backslashes escaped.
EscapeChar(c) ==
    CASE c = "\"" -> "\\\"" [] c = "\\" -> "\\\\" [] c = "\n" -> "\\n"
      [] c = "\t" -> "\\t" [] c = "\r" -> "\\r" [] OTHER -> c

RECURSIVE EscapeDebug(_)
EscapeDebug(s) ==
    IF Len(s) = 0 THEN ""
    ELSE IF Len(s) = 1 THEN EscapeChar(s)
    ELSE LET h == Len(s) \div 2
         IN  EscapeDebug(SubSeq(s, 1, h)) \o
             EscapeDebug(SubSeq(s, h + 1, Len(s)))

DebugStr(s) == "\"" \o EscapeDebug(s) \o "\""

\* {:?} of Option<i32>, the exit code.
DebugCode(code) ==
    IF IsSome(code) THEN "Some(" \o NatStr(Unwrap(code)) \o ")" ELSE "None"

(***************************************************************************)
(* The configuration model: Config, BackupConfig, LoggingConfig,           *)
(* ResticConfig.                                                           *)
(***************************************************************************)
BackupConfig(frequency, time, directories, exclude) ==
    [frequency |-> frequency, time |-> time,
     directories |-> directories, exclude |-> exclude]

LoggingConfig(directory, max_size) ==
    [directory |-> directory, max_size |-> max_size]

ResticConfig(repository, ssh_command, password_command, password) ==
    [repository |-> repository, ssh_command |-> ssh_command,
     password_command |-> password_command, password |-> password]

Config(backup, logging, restic) ==
    [backup |-> backup, logging |-> logging, restic |-> restic]

(***************************************************************************)
(* std::process::Command: the program, the argument list and the           *)
(* environment overrides (a map kept in key order).                        *)
(***************************************************************************)
EnvKeys == <<"RESTIC_PASSWORD", "RESTIC_SSH_COMMAND">>

CommandNew(program) == [program |-> program, args |-> << >>, env |-> << >>]

Arg(cmd, a) == [cmd EXCEPT !.args = Append(@, a)]

HasEnv(cmd, k) == \E j \in 1..Len(cmd.env) : cmd.env[j][1] = k

\* Command::env: insert or overwrite; the map iterates in key order.
SetEnv(cmd, k, v) ==
    LET others == SelectSeq(cmd.env, LAMBDA e : e[1] # k)
        before == SelectSeq(others,
                      LAMBDA e : \E i, j \in 1..Len(EnvKeys) :
                          /\ EnvKeys[i] = e[1] /\ EnvKeys[j] = k /\ i < j)
        after == SelectSeq(others,
                      LAMBDA e : \E i, j \in 1..Len(EnvKeys) :
                          /\ EnvKeys[i] = e[1] /\ EnvKeys[j] = k /\ i > j)
    IN  [cmd EXCEPT !.env = before \o << <<k, v>> >> \o after]

RECURSIVE DebugArgs(_)
DebugArgs(args) ==
    IF args = << >> THEN ""
    ELSE " " \o DebugStr(Head(args)) \o DebugArgs(Tail(args))

RECURSIVE DebugEnv(_)
DebugEnv(env) ==
    IF env = << >> THEN ""
    ELSE Head(env)[1] \o "=" \o DebugStr(Head(env)[2]) \o " "
             \o DebugEnv(Tail(env))

\* {:?} of a Command.  The standard library decides the text: its Unix
\* implementation writes the altered environment variables, KEY="value",
\* in front of the quoted program and arguments (shows_env); older
\* releases and other platforms write the program and arguments alone.
DebugCommand(cmd, shows_env) ==
    (IF shows_env THEN DebugEnv(cmd.env) ELSE "")
        \o DebugStr(cmd.program) \o DebugArgs(cmd.args)

(***************************************************************************)
(* The backup command builder, execute_restic_backup lines 162-210.        *)
(***************************************************************************)
\* A plausible slip: the inline password handed over as a flag.
BackupPassword_AsArg(cmd, restic_config) ==
    IF IsSome(restic_config.password_command)
    THEN Arg(Arg(cmd, "--password-command"),
             Unwrap(restic_config.password_command))
    ELSE IF IsSome(restic_config.password)
    THEN Arg(Arg(cmd, "--password"), Unwrap(restic_config.password))
    ELSE cmd

\* A plausible slip: two independent ifs instead of if / else if.
BackupPassword_NoElse(cmd, restic_config) ==
    LET c1 == IF IsSome(restic_config.password_command)
              THEN Arg(Arg(cmd, "--password-command"),
                       Unwrap(restic_config.password_command))
              ELSE cmd
    IN  IF IsSome(restic_config.password)
        THEN SetEnv(c1, "RESTIC_PASSWORD", Unwrap(restic_config.password))
        ELSE c1

BackupPassword(cmd, restic_config) ==
    IF IsSome(restic_config.password_command)
    THEN Arg(Arg(cmd, "--password-command"),
             Unwrap(restic_config.password_command))
    ELSE IF IsSome(restic_config.password)
    THEN SetEnv(cmd, "RESTIC_PASSWORD", Unwrap(restic_config.password))
    ELSE cmd

BackupSsh(cmd, restic_config) ==
    IF IsSome(restic_config.ssh_command)
    THEN SetEnv(cmd, "RESTIC_SSH_COMMAND", Unwrap(restic_config.ssh_command))
    ELSE cmd

BackupVerbose(cmd, verbose) == IF verbose THEN Arg(cmd, "--verbose") ELSE cmd

RECURSIVE BackupDirs(_, _)
BackupDirs(cmd, directories) ==
    IF directories = << >> THEN cmd
    ELSE BackupDirs(Arg(cmd, Head(directories)), Tail(directories))

\* A plausible slip: one --exclude flag in front of all the paths.
BackupExcludes_OneFlag(cmd, exclude) ==
    IF exclude = << >> THEN cmd
    ELSE BackupDirs(Arg(cmd, "--exclude"), exclude)

RECURSIVE BackupExcludes(_, _)
BackupExcludes(cmd, exclude) ==
    IF exclude = << >> THEN cmd
    ELSE BackupExcludes(Arg(Arg(cmd, "--exclude"), Head(exclude)),
                        Tail(exclude))

BackupDryRun(cmd, dry_run) == IF dry_run THEN Arg(cmd, "--dry-run") ELSE cmd

BackupCommand(backup_config, restic_config, dry_run, verbose) ==
    LET c0 == Arg(CommandNew("restic"), "backup")
        c1 == Arg(Arg(c0, "--repo"), restic_config.repository)
        c2 == BackupPassword(c1, restic_config)
        c3 == BackupSsh(c2, restic_config)
        c4 == BackupVerbose(c3, verbose)
        c5 == BackupDirs(c4, backup_config.directories)
        c6 == BackupExcludes(c5, backup_config.exclude)
    IN  BackupDryRun(c6, dry_run)

(***************************************************************************)
(* The snapshots command builder, get_snapshots lines 203-218.             *)
(***************************************************************************)
\* Lines 203-206.
SnapshotsBase(repository) ==
    Arg(Arg(Arg(Arg(CommandNew("restic"), "snapshots"), "--repo"), repository),
        "--json")

\* Lines 208-218.
SnapshotsCredentials(cmd, restic_config) ==
    LET c3 == IF IsSome(restic_config.password_command)
              THEN Arg(Arg(cmd, "--password-command"),
                       Unwrap(restic_config.password_command))
              ELSE IF IsSome(restic_config.password)
              THEN SetEnv(cmd, "RESTIC_PASSWORD",
                          Unwrap(restic_config.password))
              ELSE cmd
    IN  IF IsSome(restic_config.ssh_command)
        THEN SetEnv(c3, "RESTIC_SSH_COMMAND",
                    Unwrap(restic_config.ssh_command))
        ELSE c3

SnapshotsCommand(restic_config) ==
    SnapshotsCredentials(SnapshotsBase(restic_config.repository),
                         restic_config)

(***************************************************************************)
(* Inputs of the command-line run and of the builders.                     *)
(***************************************************************************)
SeqsUpTo(S, n) == UNION {[1..k -> S] : k \in 0..n}

Repositories == {"/srv/restic-repo"}
PasswordCommands == {"pass show restic"}
Passwords == {"hunter2"}
SshCommands == {"ssh -i id_backup"}
DirPaths == {"/home", "/etc"}
ExclPaths == {"/home/.cache"}
Frequencies == {"daily", "weekly"}
Times == {"02:00"}

OptionOf(S) == {None} \cup {Some(x) : x \in S}

BackupConfigs ==
    {BackupConfig(f, t, d, e) :
        f \in Frequencies, t \in Times,
        d \in SeqsUpTo(DirPaths, MaxDirs), e \in SeqsUpTo(ExclPaths, MaxExcl)}

ResticConfigs ==
    {ResticConfig(r, s, c, p) :
        r \in Repositories, s \in OptionOf(SshCommands),
        c \in OptionOf(PasswordCommands), p \in OptionOf(Passwords)}

CliLogging == LoggingConfig("/var/log/restic", "10MB")

\* The configurations the command-line run is given.
CliBackupConfigs ==
    {BackupConfig("daily", "02:00", <<"/home", "/etc">>, <<"/home/.cache">>),
     BackupConfig("weekly", "02:00", <<"/home">>, << >>)}

CliConfigs ==
    {Config(b, CliLogging, r) : b \in CliBackupConfigs, r \in ResticConfigs}

\* What restic may write to its standard error.
StderrSamples ==
    {"",
     "Fatal: unable to open config file: stat: no such file\nIs there a repository at the following location?\n",
     "Fatal: Repository Not Found\n",
     "Fatal: wrong password or no key found\n",
     "Fatal: an Empty Password is not allowed\n",
     "Fatal: unable to open Config File; PASSWORD missing\n",
     "Fatal: unable to create lock in backend\n",
     "warning: pass word list; repository notfound\n"}

StdoutSamples == {"", "Files: 3 new\n"}

\* The captured (stdout, stderr) pairs of a child that exited.
ChildOutputs ==
    {<<o, "">> : o \in StdoutSamples}
        \cup {<<"Files: 3 new\n", e>> : e \in StderrSamples}

\* The child's exit status: a code, or none when a signal ended it.
ExitCodes == {Some(0), Some(1), None}
StatusSuccess(code) == code = Some(0)

NoChild == [state |-> "none", code |-> None, stdout |-> "", stderr |-> ""]

(***************************************************************************)
(* Log records and console lines.  A record below the logger's level is    *)
(* dropped: debug records are written only in verbose mode (main line 53). *)
(* The console lines are those of println! and eprintln!; the emoji that   *)
(* opens the two hint headings is left out of the text.                    *)
(***************************************************************************)
LogDebug(text) == [level |-> "debug", text |-> text]
LogInfo(text) == [level |-> "info", text |-> text]
LogError(text) == [level |-> "error", text |-> text]

Emit(records, verbose) ==
    SelectSeq(records, LAMBDA r : r.level # "debug" \/ verbose)

When(cond, lines) == IF cond THEN lines ELSE << >>

RECURSIVE DebugList(_)
DebugList(paths) ==
    IF paths = << >> THEN ""
    ELSE DebugStr(Head(paths))
             \o (IF Len(paths) > 1 THEN ", " ELSE "") \o DebugList(Tail(paths))

\* {:?} of a Vec<PathBuf>.
DebugVec(paths) == "[" \o DebugList(paths) \o "]"

RECURSIVE DirLogLines(_)
DirLogLines(directories) ==
    IF directories = << >> THEN << >>
    ELSE <<LogDebug("  - Adding directory: " \o DebugStr(Head(directories)))>>
             \o DirLogLines(Tail(directories))

RECURSIVE ExcludeLogLines(_)
ExcludeLogLines(exclude) ==
    IF exclude = << >> THEN << >>
    ELSE <<LogDebug("  - Excluding: " \o DebugStr(Head(exclude)))>>
             \o ExcludeLogLines(Tail(exclude))

RECURSIVE ReadableDirs(_)
ReadableDirs(directories) ==
    IF directories = << >> THEN ""
    ELSE " " \o DebugStr(Head(directories)) \o ReadableDirs(Tail(directories))

RECURSIVE ReadableExcludes(_)
ReadableExcludes(exclude) ==
    IF exclude = << >> THEN ""
    ELSE " --exclude " \o DebugStr(Head(exclude))
             \o ReadableExcludes(Tail(exclude))

\* execute_restic_backup lines 219-234.
ReadableCmd(backup_config, restic_config, dry_run, verbose) ==
    "restic backup --repo " \o restic_config.repository
        \o (IF IsSome(restic_config.password_command)
            THEN " --password-command '"
                     \o Unwrap(restic_config.password_command) \o "'"
            ELSE "")
        \o (IF verbose THEN " --verbose" ELSE "")
        \o ReadableDirs(backup_config.directories)
        \o ReadableExcludes(backup_config.exclude)
        \o (IF dry_run THEN " --dry-run" ELSE "")

\* The records main writes once the logger runs, lines 56-75.
MainLog(cfg, dry_run, verbose, log_level) ==
    <<LogDebug("Logging initialized with level: " \o log_level),
      LogInfo("Better Restic Client starting up"),
      LogInfo("Backup frequency: " \o cfg.backup.frequency),
      LogInfo("Backup time: " \o cfg.backup.time),
      LogInfo("Backup directories: " \o DebugVec(cfg.backup.directories)),
      LogInfo("Exclude directories: " \o DebugVec(cfg.backup.exclude)),
      LogInfo("Log directory: " \o DebugStr(cfg.logging.directory)),
      LogInfo("Max log size: " \o cfg.logging.max_size),
      LogInfo("Dry run mode: " \o (IF dry_run THEN "true" ELSE "false")),
      LogInfo("Verbose mode: " \o (IF verbose THEN "true" ELSE "false")),
      LogInfo("Restic repository: " \o cfg.restic.repository)>>
      \o When(IsSome(cfg.restic.ssh_command),
              <<LogDebug("SSH command configured: "
                             \o Unwrap(cfg.restic.ssh_command))>>)
      \o When(IsSome(cfg.restic.password_command),
              <<LogDebug("Password command configured: "
                             \o Unwrap(cfg.restic.password_command))>>)
      \o When(IsSome(cfg.restic.password),
              <<LogDebug("Direct password configured (from config.yaml)")>>)

\* The records execute_restic_backup writes while it builds the command,
\* lines 159-236.
BuildLog(backup_config, restic_config, dry_run, verbose, cmd, shows_env) ==
    <<LogDebug("Building restic backup command"),
      LogDebug("Setting repository: " \o restic_config.repository),
      IF IsSome(restic_config.password_command)
      THEN LogDebug("Using password command for authentication")
      ELSE IF IsSome(restic_config.password)
      THEN LogDebug("Using direct password from config (RESTIC_PASSWORD environment variable)")
      ELSE LogDebug("No password configured - restic will prompt or use default")>>
      \o When(IsSome(restic_config.ssh_command),
              <<LogDebug("Setting SSH command environment variable: "
                             \o Unwrap(restic_config.ssh_command))>>)
      \o When(verbose, <<LogDebug("Adding verbose flag to restic command")>>)
      \o <<LogDebug("Adding " \o NatStr(Len(backup_config.directories))
                        \o " directories to backup")>>
      \o DirLogLines(backup_config.directories)
      \o <<LogDebug("Adding " \o NatStr(Len(backup_config.exclude))
                        \o " exclude patterns")>>
      \o ExcludeLogLines(backup_config.exclude)
      \o When(dry_run, <<LogDebug("Adding dry-run flag")>>)
      \o <<LogInfo("Restic command: " \o DebugCommand(cmd, shows_env)),
           LogDebug("Full command details: " \o DebugCommand(cmd, shows_env))>>
      \o When(verbose,
              <<LogDebug("Readable command: "
                    \o ReadableCmd(backup_config, restic_config, dry_run,
                                   verbose))>>)

\* The message of a spawn failure, lines 245-250 and 350-355.
SpawnErrorMsg(cmd, shows_env) ==
    "Failed to execute restic command: No such file or directory (os error 2). "
        \o "Make sure 'restic' is installed and available in your PATH. "
        \o "Command attempted: " \o DebugCommand(cmd, shows_env)

SpawnErrorConsole(msg) ==
    <<"\n=== COMMAND EXECUTION ERROR ===", msg,
      "===============================\n">>

OutputLog(child) ==
    <<LogDebug("Command exit status: " \o DebugCode(child.code)),
      LogDebug("Stdout length: " \o NatStr(Len(child.stdout)) \o " bytes"),
      LogDebug("Stderr length: " \o NatStr(Len(child.stderr)) \o " bytes")>>

\* The repository-initialization hint, lines 307-318 (and 414-425).
RepoHintLines(restic_config) ==
    <<"\nSUGGESTION:",
      "   The repository at '" \o restic_config.repository
          \o "' does not exist or is not accessible.",
      "   Initialize it first with:",
      "   restic init --repo " \o restic_config.repository>>
      \o (IF IsSome(restic_config.password_command)
          THEN <<"   (with RESTIC_PASSWORD_COMMAND='"
                     \o Unwrap(restic_config.password_command) \o "')">>
          ELSE IF IsSome(restic_config.password)
          THEN <<"   (with RESTIC_PASSWORD set from config)">>
          ELSE << >>)
      \o When(IsSome(restic_config.ssh_command),
              <<"   (with RESTIC_SSH_COMMAND='"
                    \o Unwrap(restic_config.ssh_command) \o "')">>)

\* The password hint, lines 323-327 (and 430-434).
PasswordHintLines ==
    <<"\nPASSWORD ERROR:",
      "   Restic requires a password. Make sure you have configured either:",
      "   - 'password' field in config.yaml (direct password)",
      "   - 'password_command' field in config.yaml (command to retrieve password)",
      "   - Or set RESTIC_PASSWORD environment variable">>

FailureMsg(what, child) ==
    IF child.stderr # ""
    THEN "Restic " \o what \o " failed (exit code: " \o DebugCode(child.code)
             \o "): " \o trim(child.stderr)
    ELSE IF child.stdout # ""
    THEN "Restic " \o what \o " failed (exit code: " \o DebugCode(child.code)
             \o "): " \o trim(child.stdout)
    ELSE "Restic " \o what \o " failed with exit code: "
             \o DebugCode(child.code)

(***************************************************************************)
(* The outcome classifier: what execute_restic_backup does with the output *)
(* of the child, on its dry-run branch (lines 257-342) and on its real-    *)
(* backup branch (lines 362-449).  Each yields the log records, the        *)
(* console lines and the error returned (None for Ok).                     *)
(***************************************************************************)
DryRunOutput(restic_config, verbose, cmd_string, child) ==
    IF StatusSuccess(child.code)
    THEN [log |-> OutputLog(child)
                    \o <<LogInfo("Dry run completed successfully")>>
                    \o When(child.stdout # "",
                            <<LogInfo("Output:\n" \o child.stdout)>>)
                    \o When(verbose /\ child.stderr # "",
                            <<LogDebug("Stderr output:\n" \o child.stderr)>>),
          console |-> << >>,
          err |-> None]
    ELSE LET stderr_lower == to_lowercase(child.stderr)
             is_repo_error ==
                 \/ Contains(stderr_lower, "unable to open config file")
                 \/ Contains(stderr_lower, "is there a repository")
                 \/ Contains(stderr_lower, "repository not found")
         IN  [log |-> OutputLog(child)
                        \o <<LogError("Dry run failed with exit code: "
                                          \o DebugCode(child.code))>>
                        \o When(child.stderr # "",
                                <<LogError("Stderr: " \o child.stderr)>>)
                        \o When(child.stdout # "",
                                <<LogError("Stdout: " \o child.stdout)>>),
              console |-> <<"\n=== RESTIC DRY RUN FAILED ===",
                            "Exit code: " \o DebugCode(child.code),
                            "\nCommand executed: " \o cmd_string>>
                        \o When(child.stderr # "",
                                <<"\nStderr output:", child.stderr>>)
                        \o When(child.stdout # "",
                                <<"\nStdout output:", child.stdout>>)
                        \o When(is_repo_error, RepoHintLines(restic_config))
                        \o When(\/ Contains(stderr_lower, "empty password")
                                \/ Contains(stderr_lower, "password"),
                                PasswordHintLines)
                        \o <<"=============================\n">>,
              err |-> Some(FailureMsg("dry run", child))]

\* A plausible slip: the password check chained to the repository check
\* with else, so that a repository error hides the password hint.
BackupOutput_ElseIf(restic_config, verbose, cmd_string, child) ==
    IF StatusSuccess(child.code)
    THEN [log |-> << >>, console |-> << >>, err |-> None]
    ELSE LET stderr_lower == to_lowercase(child.stderr)
             is_repo_error ==
                 \/ Contains(stderr_lower, "unable to open config file")
                 \/ Contains(stderr_lower, "is there a repository")
                 \/ Contains(stderr_lower, "repository not found")
         IN  [log |-> << >>,
              console |-> IF is_repo_error THEN RepoHintLines(restic_config)
                          ELSE When(Contains(stderr_lower, "password"),
                                    PasswordHintLines),
              err |-> Some(FailureMsg("backup", child))]

BackupOutput(restic_config, verbose, cmd_string, child) ==
    IF StatusSuccess(child.code)
    THEN [log |-> OutputLog(child)
                    \o <<LogInfo("Backup completed successfully")>>
                    \o When(child.stdout # "",
                            <<LogInfo("Output:\n" \o child.stdout)>>)
                    \o When(verbose /\ child.stderr # "",
                            <<LogDebug("Stderr output:\n" \o child.stderr)>>),
          console |-> When(child.stdout # "", <<"\n" \o child.stdout>>)
                        \o When(verbose /\ child.stderr # "",
                                <<"\n" \o child.stderr>>),
          err |-> None]
    ELSE LET stderr_lower == to_lowercase(child.stderr)
             is_repo_error ==
                 \/ Contains(stderr_lower, "unable to open config file")
                 \/ Contains(stderr_lower, "is there a repository")
                 \/ Contains(stderr_lower, "repository not found")
         IN  [log |-> OutputLog(child)
                        \o <<LogError("Backup failed with exit code: "
                                          \o DebugCode(child.code))>>
                        \o When(child.stderr # "",
                                <<LogError("Stderr: " \o child.stderr)>>)
                        \o When(child.stdout # "",
                                <<LogError("Stdout: " \o child.stdout)>>),
              console |-> <<"\n=== RESTIC BACKUP FAILED ===",
                            "Exit code: " \o DebugCode(child.code),
                            "\nCommand executed: " \o cmd_string>>
                        \o When(child.stderr # "",
                                <<"\nStderr output:", child.stderr>>)
                        \o When(child.stdout # "",
                                <<"\nStdout output:", child.stdout>>)
                        \o When(is_repo_error, RepoHintLines(restic_config))
                        \o When(\/ Contains(stderr_lower, "empty password")
                                \/ Contains(stderr_lower, "password"),
                                PasswordHintLines)
                        \o <<"=============================\n">>,
              err |-> Some(FailureMsg("backup", child))]

(***************************************************************************)
(* State.                                                                  *)
(***************************************************************************)
VARIABLES
    cli_pc,        \* where main stands
    cli_file,      \* what config.yaml parses to (None: unreadable or invalid)
    cli_dry_run,   \* --dry-run / -n given
    cli_verbose,   \* --verbose / -v given
    shows_env,     \* whether this build's {:?} of a Command shows its env
    cli_config,    \* the Config main loaded
    cli_cmd,       \* the Command execute_restic_backup built
    cli_cmd_string, \* its cmd_string, the {:?} of the Command (line 213)
    cli_child,     \* the restic child process
    cli_log,       \* the records written to the operational log
    cli_console,   \* the lines printed to stdout and stderr
    cli_exit,      \* the exit code of the process
    b_backup,      \* builders' input: the BackupConfig
    b_restic,      \* builders' input: the ResticConfig
    b_dry_run,     \* builders' input: dry_run
    b_verbose,     \* builders' input: verbose
    b_cmd,         \* the Command execute_restic_backup builds from them
    snap_cmd,      \* the Command get_snapshots builds from them
    config,        \* AppState.config: the in-memory Config behind the RwLock
    file,          \* the contents of the config file at config_path
    rw_readers,    \* the requests holding a read guard of the RwLock
    rw_writer,     \* the request holding its write guard, if any
    hist,          \* history: the Configs the memory held, oldest first
    kind,          \* per request: the route it came in on
    pc,            \* per request: where its handler stands
    payload,       \* per request: its JSON body
    local,         \* per request: the handler's local variables
    resp,          \* per request: the response sent
    task,          \* per request: the background task tokio::spawn made
    proc           \* per request: the restic child process it caused

cli_vars == <<cli_pc, cli_file, cli_dry_run, cli_verbose, shows_env,
              cli_config, cli_cmd, cli_cmd_string, cli_child, cli_log,
              cli_console, cli_exit>>

b_vars == <<b_backup, b_restic, b_dry_run, b_verbose, b_cmd, snap_cmd>>

svc_vars == <<config, file, rw_readers, rw_writer, hist, kind, pc, payload,
              local, resp, task, proc>>

vars == <<cli_vars, b_vars, svc_vars>>

(***************************************************************************)
(* One command-line run: main, lines 39-81.                                *)
(***************************************************************************)
\* The builders' harness at rest.
BuildIdle ==
    /\ b_backup = BackupConfig("daily", "02:00", << >>, << >>)
    /\ b_restic = ResticConfig("/srv/restic-repo", None, None, None)
    /\ b_dry_run = FALSE
    /\ b_verbose = FALSE
    /\ b_cmd = None
    /\ snap_cmd = None

CliStart ==
    /\ cli_pc = "start"
    /\ cli_file \in OptionOf(CliConfigs)
    /\ cli_dry_run \in BOOLEAN
    /\ cli_verbose \in BOOLEAN
    /\ shows_env \in BOOLEAN
    /\ cli_config = None
    /\ cli_cmd = None
    /\ cli_child = NoChild
    /\ cli_log = << >>
    /\ cli_console = << >>
    /\ cli_cmd_string = ""
    /\ cli_exit = None

\* main returns Err: the runtime prints it and the process exits with 1.
CliFail(msg) ==
    /\ cli_pc' = "exit"
    /\ cli_exit' = Some(1)
    /\ cli_console' = cli_console \o <<"Error: " \o msg>>

\* Lines 46-50: read and parse config.yaml.
CliLoadConfig ==
    /\ cli_pc = "start"
    /\ IF IsSome(cli_file)
       THEN /\ cli_config' = cli_file
            /\ cli_pc' = "loaded"
            /\ UNCHANGED <<cli_console, cli_exit>>
       ELSE /\ CliFail("config.yaml could not be read or parsed")
            /\ UNCHANGED cli_config
    /\ UNCHANGED <<cli_file, cli_dry_run, cli_verbose, shows_env, cli_cmd,
                   cli_cmd_string, cli_child, cli_log, b_vars, svc_vars>>

\* Lines 53-75: set up the logger (which may fail) and log the settings.
CliSetupLogging ==
    /\ cli_pc = "loaded"
    /\ \E ok \in BOOLEAN :
        IF ok
        THEN /\ cli_log' = Emit(MainLog(Unwrap(cli_config), cli_dry_run,
                                        cli_verbose,
                                        IF cli_verbose THEN "debug"
                                        ELSE "info"),
                                cli_verbose)
             /\ cli_pc' = "logging"
             /\ UNCHANGED <<cli_console, cli_exit>>
        ELSE /\ CliFail("Failed to create log directory")
             /\ UNCHANGED cli_log
    /\ UNCHANGED <<cli_file, cli_dry_run, cli_verbose, shows_env, cli_config,
                   cli_cmd, cli_cmd_string, cli_child, b_vars, svc_vars>>

\* execute_restic_backup lines 159-236: build the command and log it.
CliBuild ==
    /\ cli_pc = "logging"
    /\ LET cfg == Unwrap(cli_config)
           cmd == BackupCommand(cfg.backup, cfg.restic, cli_dry_run,
                                cli_verbose)
       IN  /\ cli_cmd' = Some(cmd)
           /\ cli_cmd_string' = DebugCommand(cmd, shows_env)
           /\ cli_log' = cli_log
                  \o Emit(BuildLog(cfg.backup, cfg.restic, cli_dry_run,
                                   cli_verbose, cmd, shows_env),
                          cli_verbose)
    /\ cli_pc' = "built"
    /\ UNCHANGED <<cli_file, cli_dry_run, cli_verbose, shows_env, cli_config,
                   cli_child, cli_console, cli_exit, b_vars,
                   svc_vars>>

\* Lines 238-255 and 343-360: announce the run and spawn the child, which
\* starts or cannot be started.
CliSpawn ==
    /\ cli_pc = "built"
    /\ LET cmd == Unwrap(cli_cmd)
           cmd_string == cli_cmd_string
           announce_log ==
               IF cli_dry_run
               THEN <<LogInfo("DRY RUN MODE: Executing restic backup with --dry-run flag"),
                      LogDebug("Executing command and capturing output"),
                      LogDebug("Command: " \o DebugCommand(cmd, shows_env))>>
               ELSE <<LogInfo("EXECUTING BACKUP: Running restic backup")>>
           announce_console ==
               IF cli_dry_run THEN << >> ELSE <<"Executing: " \o cmd_string>>
       IN  /\ cli_log' = cli_log \o Emit(announce_log, cli_verbose)
           /\ \E started \in BOOLEAN :
                IF started
                THEN /\ cli_child' = [cli_child EXCEPT !.state = "running"]
                     /\ cli_pc' = "spawned"
                     /\ cli_console' = cli_console \o announce_console
                     /\ UNCHANGED cli_exit
                ELSE /\ cli_child' = [cli_child EXCEPT !.state = "spawn_failed"]
                     /\ cli_pc' = "exit"
                     /\ cli_exit' = Some(1)
                     /\ cli_console' =
                            cli_console \o announce_console
                                \o SpawnErrorConsole(SpawnErrorMsg(cmd, shows_env))
                                \o <<"Error: " \o SpawnErrorMsg(cmd, shows_env)>>
    /\ UNCHANGED <<cli_file, cli_dry_run, cli_verbose, shows_env, cli_config,
                   cli_cmd, cli_cmd_string, b_vars, svc_vars>>

\* A variant of CliChildExit that runs the command again after a failed
\* exit instead of returning the error.
CliChildExit_Retries ==
    /\ cli_pc = "spawned"
    /\ \E code \in ExitCodes, output \in ChildOutputs :
        LET child == [state |-> "exited", code |-> code,
                      stdout |-> output[1], stderr |-> output[2]]
            restic_config == Unwrap(cli_config).restic
            res == IF cli_dry_run
                   THEN DryRunOutput(restic_config, cli_verbose,
                                     cli_cmd_string, child)
                   ELSE BackupOutput(restic_config, cli_verbose,
                                     cli_cmd_string, child)
        IN  /\ cli_child' = child
            /\ cli_log' = cli_log \o Emit(res.log, cli_verbose)
            /\ cli_console' = cli_console \o res.console
            /\ IF IsSome(res.err)
               THEN cli_pc' = "built" /\ UNCHANGED cli_exit
               ELSE cli_pc' = "exit" /\ cli_exit' = Some(0)
    /\ UNCHANGED <<cli_file, cli_dry_run, cli_verbose, shows_env, cli_config,
                   cli_cmd, cli_cmd_string, b_vars, svc_vars>>

\* Lines 257-342 and 362-453: the child exits; its output is classified.
CliChildExit ==
    /\ cli_pc = "spawned"
    /\ \E code \in ExitCodes, output \in ChildOutputs :
        LET child == [state |-> "exited", code |-> code,
                      stdout |-> output[1], stderr |-> output[2]]
            cmd_string == cli_cmd_string
            restic_config == Unwrap(cli_config).restic
            res == IF cli_dry_run
                   THEN DryRunOutput(restic_config, cli_verbose, cmd_string,
                                     child)
                   ELSE BackupOutput(restic_config, cli_verbose, cmd_string,
                                     child)
        IN  /\ cli_child' = child
            /\ cli_log' = cli_log \o Emit(res.log, cli_verbose)
            /\ cli_console' =
                   cli_console \o res.console
                       \o When(IsSome(res.err), <<"Error: " \o Unwrap(res.err)>>)
            /\ cli_exit' = IF IsSome(res.err) THEN Some(1) ELSE Some(0)
    /\ cli_pc' = "exit"
    /\ UNCHANGED <<cli_file, cli_dry_run, cli_verbose, shows_env, cli_config,
                   cli_cmd, cli_cmd_string, b_vars, svc_vars>>

CliNext ==
    \/ CliLoadConfig
    \/ CliSetupLogging
    \/ CliBuild
    \/ CliSpawn
    \/ CliChildExit

\* The command-line run at rest.
CliIdle ==
    /\ cli_pc = "idle"
    /\ cli_file = None
    /\ cli_dry_run = FALSE
    /\ cli_verbose = FALSE
    /\ shows_env = FALSE
    /\ cli_config = None
    /\ cli_cmd = None
    /\ cli_cmd_string = ""
    /\ cli_child = NoChild
    /\ cli_log = << >>
    /\ cli_console = << >>
    /\ cli_exit = None

(***************************************************************************)
(* The builders on arbitrary inputs.                                       *)
(***************************************************************************)
BuildStart ==
    /\ b_backup \in BackupConfigs
    /\ b_restic \in ResticConfigs
    /\ b_dry_run \in BOOLEAN
    /\ b_verbose \in BOOLEAN
    /\ b_cmd = None
    /\ snap_cmd = None

\* execute_restic_backup lines 162-210.
BuildBackup ==
    /\ b_cmd = None
    /\ b_cmd' = Some(BackupCommand(b_backup, b_restic, b_dry_run, b_verbose))
    /\ UNCHANGED <<b_backup, b_restic, b_dry_run, b_verbose, snap_cmd, cli_vars,
                   svc_vars>>

\* get_snapshots lines 203-218.
BuildSnapshots ==
    /\ snap_cmd = None
    /\ snap_cmd' = Some(SnapshotsCommand(b_restic))
    /\ UNCHANGED <<b_backup, b_restic, b_dry_run, b_verbose, b_cmd, cli_vars,
                   svc_vars>>

BuildNext == BuildBackup \/ BuildSnapshots

(***************************************************************************)
(* The service.  The config file holds YAML text; serde_yaml turns a text  *)
(* into a Config or rejects it.                                            *)
(***************************************************************************)
YamlA == "backup: {frequency: daily, directories: [/home]}\nrestic: {repository: /srv/a, password: hunter2}\n"
YamlB == "backup: {frequency: weekly, directories: [/home, /etc], exclude: [/home/.cache]}\nrestic: {repository: sftp:b, ssh_command: ssh -i id_backup, password_command: pass show restic, password: hunter2}\n"
YamlC == "backup: {frequency: hourly, directories: [/etc]}\nrestic: {repository: /srv/c}\n"
YamlBroken == "backup: [unclosed"
YamlNoRestic == "backup: {frequency: daily, directories: [/home]}\n"

SvcLogging == LoggingConfig("/var/log/restic", "10MB")

ConfigA ==
    Config(BackupConfig("daily", "02:00", <<"/home">>, << >>), SvcLogging,
           ResticConfig("/srv/a", None, None, Some("hunter2")))

ConfigB ==
    Config(BackupConfig("weekly", "03:00", <<"/home", "/etc">>,
                        <<"/home/.cache">>),
           SvcLogging,
           ResticConfig("sftp:b", Some("ssh -i id_backup"),
                        Some("pass show restic"), Some("hunter2")))

ConfigC ==
    Config(BackupConfig("hourly", "00:00", <<"/etc">>, << >>), SvcLogging,
           ResticConfig("/srv/c", None, None, None))

\* serde_yaml::from_str::<Config>: Some(config), or None for text that is
\* no YAML or lacks a required field.
ParseYaml(yaml) ==
    CASE yaml = YamlA -> Some(ConfigA)
      [] yaml = YamlB -> Some(ConfigB)
      [] yaml = YamlC -> Some(ConfigC)
      [] OTHER -> None

\* The bodies POST /api/config/yaml is sent, and those of
\* POST /api/backup/trigger (dry_run: Option<bool>).
UpdateYamls == {YamlB, YamlC, YamlBroken, YamlNoRestic}
DryRunFlags == {None, Some(TRUE), Some(FALSE)}

Reqs == 1..MaxReq

NoPayload == [yaml |-> "", dry_run |-> None]
NoLocal ==
    [new_config |-> None, backup_config |-> None, restic_config |-> None,
     cmd |-> None, dry_run |-> FALSE, acq_epoch |-> 0, written |-> FALSE]
\* (acq_epoch is history: the length of hist when the handler took its
\* guard, or for an update the place in hist of the Config it installed;
\* spawn_epoch of a child likewise, when it was spawned.  written is
\* history too: whether the update's std::fs::write returned Ok.)
NoResp == [status |-> 0, body |-> [empty |-> TRUE]]
NoTask == [state |-> "none", backup_config |-> None, restic_config |-> None,
           dry_run |-> FALSE]
NoProc == [state |-> "none", cmd |-> None, spawn_epoch |-> 0]

\* The service at rest (it is not run).
ServiceIdle ==
    /\ config = ConfigA
    /\ file = YamlA
    /\ rw_readers = {}
    /\ rw_writer = None
    /\ hist = <<ConfigA>>
    /\ kind = [i \in Reqs |-> "none"]
    /\ pc = [i \in Reqs |-> "idle"]
    /\ payload = [i \in Reqs |-> NoPayload]
    /\ local = [i \in Reqs |-> NoLocal]
    /\ resp = [i \in Reqs |-> NoResp]
    /\ task = [i \in Reqs |-> NoTask]
    /\ proc = [i \in Reqs |-> NoProc]

\* The service started on a config file holding YamlA: main loaded the
\* Config and put it behind the lock; no request has come in.
ServiceInit == ServiceIdle

\* A request comes in (requests fill the slots in order).
Arrive(i) ==
    /\ kind[i] = "none"
    /\ \A j \in Reqs : j < i => kind[j] # "none"
    /\ \/ /\ kind' = [kind EXCEPT ![i] = "get_config"]
          /\ UNCHANGED payload
       \/ /\ kind' = [kind EXCEPT ![i] = "snapshots"]
          /\ UNCHANGED payload
       \/ \E y \in UpdateYamls :
            /\ kind' = [kind EXCEPT ![i] = "update"]
            /\ payload' = [payload EXCEPT ![i].yaml = y]
       \/ \E d \in DryRunFlags :
            /\ kind' = [kind EXCEPT ![i] = "trigger"]
            /\ payload' = [payload EXCEPT ![i].dry_run = d]
    /\ pc' = [pc EXCEPT ![i] = "start"]
    /\ UNCHANGED <<config, file, rw_readers, rw_writer, hist, local, resp,
                   task, proc, cli_vars, b_vars>>

(***************************************************************************)
(* tokio::sync::RwLock<Config>.                                            *)
(***************************************************************************)
CanRead == rw_writer = None

\* A plausible slip: a write guard handed out while read guards are held.
CanWrite_IgnoresReaders == rw_writer = None

CanWrite == rw_writer = None /\ rw_readers = {}

\* config.read().await
ReadLock(i) ==
    /\ CanRead
    /\ rw_readers' = rw_readers \cup {i}
    /\ UNCHANGED rw_writer

\* drop of a read guard
ReadUnlock(i) ==
    /\ rw_readers' = rw_readers \ {i}
    /\ UNCHANGED rw_writer

Respond(i, status, body) ==
    /\ resp' = [resp EXCEPT ![i] = [status |-> status, body |-> body]]
    /\ pc' = [pc EXCEPT ![i] = "done"]

(***************************************************************************)
(* get_config, lines 57-77: the JSON is built field by field under the     *)
(* read guard, which is dropped when the handler returns.                  *)
(***************************************************************************)
GetConfigJson(backup_config, logging_config, restic_config) ==
    [backup |-> [frequency |-> backup_config.frequency,
                 time |-> backup_config.time,
                 directories |-> backup_config.directories,
                 exclude |-> backup_config.exclude],
     logging |-> [directory |-> logging_config.directory,
                  max_size |-> logging_config.max_size],
     restic |-> [repository |-> restic_config.repository,
                 has_ssh_command |-> IsSome(restic_config.ssh_command),
                 has_password_command |->
                     IsSome(restic_config.password_command),
                 has_password |-> IsSome(restic_config.password)]]

GetAcquire(i) ==
    /\ kind[i] = "get_config" /\ pc[i] = "start"
    /\ ReadLock(i)
    /\ local' = [local EXCEPT ![i].acq_epoch = Len(hist)]
    /\ pc' = [pc EXCEPT ![i] = "g_backup"]
    /\ UNCHANGED <<config, file, hist, kind, payload, resp, task, proc,
                   cli_vars, b_vars>>

\* Lines 60-69: the "backup" and "logging" objects.
GetReadBackup(i) ==
    /\ kind[i] = "get_config" /\ pc[i] = "g_backup"
    /\ local' = [local EXCEPT ![i].backup_config = Some(config.backup)]
    /\ pc' = [pc EXCEPT ![i] = "g_restic"]
    /\ UNCHANGED <<config, file, rw_readers, rw_writer, hist, kind, payload,
                   resp, task, proc, cli_vars, b_vars>>

\* Lines 70-77: the "restic" object; the guard is dropped on return.
GetReadRestic(i) ==
    /\ kind[i] = "get_config" /\ pc[i] = "g_restic"
    /\ local' = [local EXCEPT ![i].restic_config = Some(config.restic)]
    /\ ReadUnlock(i)
    /\ Respond(i, 200,
               GetConfigJson(Unwrap(local[i].backup_config), config.logging,
                             config.restic))
    /\ UNCHANGED <<config, file, hist, kind, payload, task, proc, cli_vars,
                   b_vars>>

(***************************************************************************)
(* update_config_yaml, lines 84-106.                                       *)
(***************************************************************************)
\* A plausible slip: the text written to the file before it is validated.
UpdateParse_WriteFirst(i) ==
    /\ kind[i] = "update" /\ pc[i] = "start"
    /\ file' = payload[i].yaml
    /\ IF IsSome(ParseYaml(payload[i].yaml))
       THEN /\ local' = [local EXCEPT
                           ![i].new_config = ParseYaml(payload[i].yaml)]
            /\ pc' = [pc EXCEPT ![i] = "u_lock"]
            /\ UNCHANGED resp
       ELSE /\ Respond(i, 400, [empty |-> TRUE])
            /\ UNCHANGED local
    /\ UNCHANGED <<config, rw_readers, rw_writer, hist, kind, payload, task,
                   proc, cli_vars, b_vars>>

\* Lines 89-93: validate the YAML by parsing it.
UpdateParse(i) ==
    /\ kind[i] = "update" /\ pc[i] = "start"
    /\ IF IsSome(ParseYaml(payload[i].yaml))
       THEN /\ local' = [local EXCEPT
                           ![i].new_config = ParseYaml(payload[i].yaml)]
            /\ pc' = [pc EXCEPT ![i] = "u_write"]
            /\ UNCHANGED resp
       ELSE /\ Respond(i, 400, [empty |-> TRUE])
            /\ UNCHANGED local
    /\ UNCHANGED <<config, file, rw_readers, rw_writer, hist, kind, payload,
                   task, proc, cli_vars, b_vars>>

\* A variant of UpdateWrite that goes on to the swap when the write failed.
UpdateWrite_IgnoresError(i) ==
    /\ kind[i] = "update" /\ pc[i] = "u_write"
    /\ \/ /\ file' = payload[i].yaml
          /\ local' = [local EXCEPT ![i].written = TRUE]
       \/ /\ file' \in {file, ""}
          /\ UNCHANGED local
    /\ pc' = [pc EXCEPT ![i] = "u_lock"]
    /\ UNCHANGED <<config, rw_readers, rw_writer, hist, kind, payload, resp,
                   task, proc, cli_vars, b_vars>>

\* Lines 96-97: std::fs::write.  It holds no lock.  A failed write leaves
\* the file as it was or truncated.
UpdateWrite(i) ==
    /\ kind[i] = "update" /\ pc[i] = "u_write"
    /\ \/ /\ file' = payload[i].yaml
          /\ local' = [local EXCEPT ![i].written = TRUE]
          /\ pc' = [pc EXCEPT ![i] = "u_lock"]
          /\ UNCHANGED resp
       \/ /\ file' \in {file, ""}
          /\ Respond(i, 500, [empty |-> TRUE])
          /\ UNCHANGED local
    /\ UNCHANGED <<config, rw_readers, rw_writer, hist, kind, payload,
                   task, proc, cli_vars, b_vars>>

\* Line 100: state.config.write().await.
UpdateAcquire(i) ==
    /\ kind[i] = "update" /\ pc[i] = "u_lock"
    /\ CanWrite
    /\ rw_writer' = Some(i)
    /\ pc' = [pc EXCEPT ![i] = "u_swap"]
    /\ UNCHANGED <<config, file, rw_readers, hist, kind, payload, local, resp,
                   task, proc, cli_vars, b_vars>>

\* Lines 100-105: the assignment through the write guard, the guard's drop
\* at the end of the statement, and the answer.
UpdateSwap(i) ==
    /\ kind[i] = "update" /\ pc[i] = "u_swap"
    /\ config' = Unwrap(local[i].new_config)
    /\ hist' = Append(hist, Unwrap(local[i].new_config))
    /\ rw_writer' = None
    /\ local' = [local EXCEPT ![i].acq_epoch = Len(hist) + 1]
    /\ Respond(i, 200,
               [success |-> TRUE,
                message |-> "Configuration updated successfully"])
    /\ UNCHANGED <<file, rw_readers, kind, payload, task, proc, cli_vars,
                   b_vars>>

(***************************************************************************)
(* trigger_backup, lines 108-144, and the task it spawns.                  *)
(***************************************************************************)
\* Lines 112-113.
TrigAcquire(i) ==
    /\ kind[i] = "trigger" /\ pc[i] = "start"
    /\ ReadLock(i)
    /\ local' = [local EXCEPT
                    ![i].dry_run = IF IsSome(payload[i].dry_run)
                                   THEN Unwrap(payload[i].dry_run) ELSE FALSE,
                    ![i].acq_epoch = Len(hist)]
    /\ pc' = [pc EXCEPT ![i] = "t_backup"]
    /\ UNCHANGED <<config, file, hist, kind, payload, resp, task, proc,
                   cli_vars, b_vars>>

\* Lines 116-121.
TrigCopyBackup(i) ==
    /\ kind[i] = "trigger" /\ pc[i] = "t_backup"
    /\ local' = [local EXCEPT ![i].backup_config = Some(config.backup)]
    /\ pc' = [pc EXCEPT ![i] = "t_restic"]
    /\ UNCHANGED <<config, file, rw_readers, rw_writer, hist, kind, payload,
                   resp, task, proc, cli_vars, b_vars>>

\* Lines 123-128.
TrigCopyRestic(i) ==
    /\ kind[i] = "trigger" /\ pc[i] = "t_restic"
    /\ local' = [local EXCEPT ![i].restic_config = Some(config.restic)]
    /\ pc' = [pc EXCEPT ![i] = "t_drop"]
    /\ UNCHANGED <<config, file, rw_readers, rw_writer, hist, kind, payload,
                   resp, task, proc, cli_vars, b_vars>>

\* A variant of TrigDrop that keeps the read guard, which is then held
\* until the handler returns.
TrigDrop_KeepsGuard(i) ==
    /\ kind[i] = "trigger" /\ pc[i] = "t_drop"
    /\ pc' = [pc EXCEPT ![i] = "t_spawn"]
    /\ UNCHANGED <<config, file, rw_readers, rw_writer, hist, kind, payload,
                   local, resp, task, proc, cli_vars, b_vars>>

\* Line 130: drop(config).
TrigDrop(i) ==
    /\ kind[i] = "trigger" /\ pc[i] = "t_drop"
    /\ ReadUnlock(i)
    /\ pc' = [pc EXCEPT ![i] = "t_spawn"]
    /\ UNCHANGED <<config, file, hist, kind, payload, local, resp, task, proc,
                   cli_vars, b_vars>>

\* A variant of TrigSpawn with admission control: the request is turned
\* away with 409 while a backup task of another request is under way.
TrigSpawn_RejectsWhenBusy(i) ==
    /\ kind[i] = "trigger" /\ pc[i] = "t_spawn"
    /\ IF \E j \in Reqs \ {i} : task[j].state \in {"queued", "running"}
       THEN /\ Respond(i, 409, [empty |-> TRUE])
            /\ UNCHANGED task
       ELSE /\ task' = [task EXCEPT ![i] =
                           [state |-> "queued",
                            backup_config |-> local[i].backup_config,
                            restic_config |-> local[i].restic_config,
                            dry_run |-> local[i].dry_run]]
            /\ pc' = [pc EXCEPT ![i] = "t_respond"]
            /\ UNCHANGED resp
    /\ UNCHANGED <<config, file, rw_readers, rw_writer, hist, kind, payload,
                   local, proc, cli_vars, b_vars>>

\* Lines 133-137: tokio::spawn moves the copies into a detached task.
TrigSpawn(i) ==
    /\ kind[i] = "trigger" /\ pc[i] = "t_spawn"
    /\ task' = [task EXCEPT ![i] =
                   [state |-> "queued",
                    backup_config |-> local[i].backup_config,
                    restic_config |-> local[i].restic_config,
                    dry_run |-> local[i].dry_run]]
    /\ pc' = [pc EXCEPT ![i] = "t_respond"]
    /\ UNCHANGED <<config, file, rw_readers, rw_writer, hist, kind, payload,
                   local, resp, proc, cli_vars, b_vars>>

TriggerBody(dry_run) ==
    [success |-> TRUE,
     message |-> IF dry_run THEN "Dry run backup triggered"
                 ELSE "Backup triggered",
     dry_run |-> dry_run]

\* A plausible slip: the handler awaits the task before it answers.
TrigRespond_AwaitsTask(i) ==
    /\ kind[i] = "trigger" /\ pc[i] = "t_respond"
    /\ task[i].state = "finished"
    /\ ReadUnlock(i)
    /\ Respond(i, 200, TriggerBody(local[i].dry_run))
    /\ UNCHANGED <<config, file, hist, kind, payload, local, task, proc,
                   cli_vars, b_vars>>

\* Lines 139-143: the acknowledgment (a guard still held would be dropped
\* on return).
TrigRespond(i) ==
    /\ kind[i] = "trigger" /\ pc[i] = "t_respond"
    /\ ReadUnlock(i)
    /\ Respond(i, 200, TriggerBody(local[i].dry_run))
    /\ UNCHANGED <<config, file, hist, kind, payload, local, task, proc,
                   cli_vars, b_vars>>

\* The task runs execute_restic_backup(&backup_config, &restic_config,
\* dry_run, true): it builds the command and spawns the child, which
\* starts or cannot be started.
TaskRun(i) ==
    /\ task[i].state = "queued"
    /\ LET cmd == BackupCommand(Unwrap(task[i].backup_config),
                                Unwrap(task[i].restic_config),
                                task[i].dry_run, TRUE)
       IN  \/ /\ proc' = [proc EXCEPT ![i] =
                             [state |-> "running", cmd |-> Some(cmd),
                              spawn_epoch |-> Len(hist)]]
              /\ task' = [task EXCEPT ![i].state = "running"]
           \/ /\ proc' = [proc EXCEPT ![i] =
                             [state |-> "spawn_failed", cmd |-> Some(cmd),
                              spawn_epoch |-> Len(hist)]]
              /\ task' = [task EXCEPT ![i].state = "finished"]
    /\ UNCHANGED <<config, file, rw_readers, rw_writer, hist, kind, pc,
                   payload, local, resp, cli_vars, b_vars>>

\* The child exited: execute_restic_backup returns and the task ends.
TaskFinish(i) ==
    /\ task[i].state = "running"
    /\ proc[i].state \in {"exited_ok", "exited_fail"}
    /\ task' = [task EXCEPT ![i].state = "finished"]
    /\ UNCHANGED <<config, file, rw_readers, rw_writer, hist, kind, pc,
                   payload, local, resp, proc, cli_vars, b_vars>>

\* A restic child exits with success, exits with failure, or is found to
\* hang: it will never exit.
ProcStep(i) ==
    /\ proc[i].state = "running"
    /\ \E st \in {"exited_ok", "exited_fail", "hung"} :
           proc' = [proc EXCEPT ![i].state = st]
    /\ UNCHANGED <<config, file, rw_readers, rw_writer, hist, kind, pc,
                   payload, local, resp, task, cli_vars, b_vars>>

(***************************************************************************)
(* get_snapshots, lines 199-243.                                           *)
(***************************************************************************)
SnapAcquire(i) ==
    /\ kind[i] = "snapshots" /\ pc[i] = "start"
    /\ ReadLock(i)
    /\ local' = [local EXCEPT ![i].acq_epoch = Len(hist)]
    /\ pc' = [pc EXCEPT ![i] = "s_base"]
    /\ UNCHANGED <<config, file, hist, kind, payload, resp, task, proc,
                   cli_vars, b_vars>>

\* Lines 203-206, under the read guard.
SnapBuildBase(i) ==
    /\ kind[i] = "snapshots" /\ pc[i] = "s_base"
    /\ local' = [local EXCEPT
                    ![i].cmd = Some(SnapshotsBase(config.restic.repository))]
    /\ pc' = [pc EXCEPT ![i] = "s_creds"]
    /\ UNCHANGED <<config, file, rw_readers, rw_writer, hist, kind, payload,
                   resp, task, proc, cli_vars, b_vars>>

\* Lines 208-218, under the read guard.
SnapBuildCredentials(i) ==
    /\ kind[i] = "snapshots" /\ pc[i] = "s_creds"
    /\ local' = [local EXCEPT
                    ![i].cmd = Some(SnapshotsCredentials(Unwrap(local[i].cmd),
                                                         config.restic))]
    /\ pc' = [pc EXCEPT ![i] = "s_drop"]
    /\ UNCHANGED <<config, file, rw_readers, rw_writer, hist, kind, payload,
                   resp, task, proc, cli_vars, b_vars>>

\* A plausible slip: the guard not dropped before the child is run, and
\* so held until the handler returns.
SnapDrop_KeepsGuard(i) ==
    /\ kind[i] = "snapshots" /\ pc[i] = "s_drop"
    /\ pc' = [pc EXCEPT ![i] = "s_spawn"]
    /\ UNCHANGED <<config, file, rw_readers, rw_writer, hist, kind, payload,
                   local, resp, task, proc, cli_vars, b_vars>>

\* Line 220: drop(config).
SnapDrop(i) ==
    /\ kind[i] = "snapshots" /\ pc[i] = "s_drop"
    /\ ReadUnlock(i)
    /\ pc' = [pc EXCEPT ![i] = "s_spawn"]
    /\ UNCHANGED <<config, file, hist, kind, payload, local, resp, task, proc,
                   cli_vars, b_vars>>

\* Line 223: cmd.output() spawns the child, or fails to (500; a guard
\* still held would be dropped on return).
SnapSpawn(i) ==
    /\ kind[i] = "snapshots" /\ pc[i] = "s_spawn"
    /\ \/ /\ proc' = [proc EXCEPT ![i] =
                         [state |-> "running", cmd |-> local[i].cmd,
                          spawn_epoch |-> Len(hist)]]
          /\ pc' = [pc EXCEPT ![i] = "s_wait"]
          /\ UNCHANGED <<resp, rw_readers, rw_writer>>
       \/ /\ proc' = [proc EXCEPT ![i] =
                         [state |-> "spawn_failed", cmd |-> local[i].cmd,
                          spawn_epoch |-> Len(hist)]]
          /\ ReadUnlock(i)
          /\ Respond(i, 500, [empty |-> TRUE])
    /\ UNCHANGED <<config, file, hist, kind, payload, local, task, cli_vars,
                   b_vars>>

\* Lines 223-243: .await returns once the child has exited; a failed exit
\* or output that is no JSON list is answered 500, a list with its count
\* (a guard still held would be dropped on return).
SnapFinish(i) ==
    /\ kind[i] = "snapshots" /\ pc[i] = "s_wait"
    /\ proc[i].state \in {"exited_ok", "exited_fail"}
    /\ IF proc[i].state = "exited_fail"
       THEN Respond(i, 500, [empty |-> TRUE])
       ELSE \E parsed \in {None, Some(0), Some(2)} :
                IF IsSome(parsed)
                THEN Respond(i, 200, [count |-> Unwrap(parsed)])
                ELSE Respond(i, 500, [empty |-> TRUE])
    /\ ReadUnlock(i)
    /\ UNCHANGED <<config, file, hist, kind, payload, local, task, proc,
                   cli_vars, b_vars>>

(***************************************************************************)
(* Specifications.                                                         *)
(***************************************************************************)
Handler(i) ==
    \/ GetAcquire(i) \/ GetReadBackup(i) \/ GetReadRestic(i)
    \/ UpdateParse(i) \/ UpdateWrite(i) \/ UpdateAcquire(i) \/ UpdateSwap(i)
    \/ TrigAcquire(i) \/ TrigCopyBackup(i) \/ TrigCopyRestic(i)
    \/ TrigDrop(i) \/ TrigSpawn(i) \/ TrigRespond(i)
    \/ SnapAcquire(i) \/ SnapBuildBase(i) \/ SnapBuildCredentials(i)
    \/ SnapDrop(i) \/ SnapSpawn(i) \/ SnapFinish(i)

Background(i) == TaskRun(i) \/ TaskFinish(i)

Next ==
    \E i \in Reqs :
        \/ Arrive(i)
        \/ GetAcquire(i) \/ GetReadBackup(i) \/ GetReadRestic(i)
        \/ UpdateParse(i) \/ UpdateWrite(i) \/ UpdateAcquire(i)
        \/ UpdateSwap(i)
        \/ TrigAcquire(i) \/ TrigCopyBackup(i) \/ TrigCopyRestic(i)
        \/ TrigDrop(i) \/ TrigSpawn(i) \/ TrigRespond(i)
        \/ SnapAcquire(i) \/ SnapBuildBase(i) \/ SnapBuildCredentials(i)
        \/ SnapDrop(i) \/ SnapSpawn(i) \/ SnapFinish(i)
        \/ TaskRun(i) \/ TaskFinish(i)
        \/ ProcStep(i)

Init == ServiceInit /\ CliIdle /\ BuildIdle

\* The service: any interleaving of the handlers, tasks and children.
Spec == Init /\ [][Next]_vars

\* The runtime polls every task that can make progress, and a child that
\* runs either exits or is found to hang; requests need not arrive.
FairSpec ==
    /\ Spec
    /\ \A i \in Reqs :
           /\ WF_vars(Handler(i))
           /\ WF_vars(Background(i))
           /\ WF_vars(ProcStep(i))

CliInit == CliStart /\ BuildIdle /\ ServiceIdle

\* One command-line run.
CliSpec == CliInit /\ [][CliNext]_vars

BuildInit == BuildStart /\ CliIdle /\ ServiceIdle

\* The two builders on every input.
BuildSpec == BuildInit /\ [][BuildNext]_vars

(***************************************************************************)
(* Claims about the builders and the command-line run.                     *)
(***************************************************************************)
BuiltCmds ==
    (IF IsSome(b_cmd) THEN {Unwrap(b_cmd)} ELSE {})
        \cup (IF IsSome(snap_cmd) THEN {Unwrap(snap_cmd)} ELSE {})

EnvValue(cmd, k) ==
    LET j == CHOOSE j \in 1..Len(cmd.env) : cmd.env[j][1] = k IN cmd.env[j][2]

AllText(log, console) ==
    {log[k].text : k \in 1..Len(log)} \cup {console[k] : k \in 1..Len(console)}

\* C2: with an inline password configured, no log record and no console
\* line of the run (so none of the "Restic command", "Executing",
\* "Command executed" and "Command attempted" texts) contains the password,
\* whatever the outcome of the run.
C2_PasswordNeverLogged ==
    (IsSome(cli_config) /\ IsSome(Unwrap(cli_config).restic.password)) =>
        /\ ~Contains(cli_cmd_string, Unwrap(Unwrap(cli_config).restic.password))
        /\ \A line \in AllText(cli_log, cli_console) :
               ~Contains(line, Unwrap(Unwrap(cli_config).restic.password))

\* C3: on both builders the inline password is no element of the argument
\* list (nor the program); wherever it occurs in the built command, it is
\* the value of the environment variable RESTIC_PASSWORD.
C3_PasswordNeverAnArgument ==
    IsSome(b_restic.password) =>
        \A cmd \in BuiltCmds :
            /\ cmd.program # Unwrap(b_restic.password)
            /\ \A k \in 1..Len(cmd.args) :
                   cmd.args[k] # Unwrap(b_restic.password)
            /\ \A j \in 1..Len(cmd.env) :
                   cmd.env[j][2] = Unwrap(b_restic.password)
                       => cmd.env[j][1] = "RESTIC_PASSWORD"

C3_Witness ==
    /\ IsSome(b_cmd) /\ IsSome(snap_cmd)
    /\ IsSome(b_restic.password) /\ ~IsSome(b_restic.password_command)
    /\ b_dry_run /\ b_verbose
    /\ \A cmd \in BuiltCmds :
           /\ HasEnv(cmd, "RESTIC_PASSWORD")
           /\ EnvValue(cmd, "RESTIC_PASSWORD") = Unwrap(b_restic.password)

\* C4: password_command, when set, is passed as --password-command <cmd>
\* and no RESTIC_PASSWORD is set, whatever password is; RESTIC_PASSWORD is
\* set (to the password) iff password_command is absent and password is
\* present; with both absent neither the flag nor the variable appears.
C4_CommandTakesPrecedence ==
    \A cmd \in BuiltCmds :
        /\ IsSome(b_restic.password_command) =>
               /\ \E k \in 1..(Len(cmd.args) - 1) :
                      /\ cmd.args[k] = "--password-command"
                      /\ cmd.args[k + 1] = Unwrap(b_restic.password_command)
               /\ ~HasEnv(cmd, "RESTIC_PASSWORD")
        /\ HasEnv(cmd, "RESTIC_PASSWORD") <=>
               (~IsSome(b_restic.password_command) /\ IsSome(b_restic.password))
        /\ HasEnv(cmd, "RESTIC_PASSWORD") =>
               EnvValue(cmd, "RESTIC_PASSWORD") = Unwrap(b_restic.password)
        /\ (~IsSome(b_restic.password_command) /\ ~IsSome(b_restic.password)) =>
               /\ \A k \in 1..Len(cmd.args) : cmd.args[k] # "--password-command"
               /\ ~HasEnv(cmd, "RESTIC_PASSWORD")

C4_Witness ==
    /\ IsSome(b_cmd) /\ IsSome(snap_cmd)
    /\ IsSome(b_restic.password_command) /\ IsSome(b_restic.password)
    /\ \A cmd \in BuiltCmds : ~HasEnv(cmd, "RESTIC_PASSWORD")

\* C5: the backup argument list is, position by position: backup, --repo,
\* the repository, then --password-command and its command iff
\* password_command is set, then --verbose iff verbose, then the
\* directories in order (duplicates kept), then one --exclude <path> pair
\* per exclude path in order, then --dry-run iff dry_run; nothing else, and
\* so nothing of frequency, time, password or ssh_command.
C5_ArgumentOrder ==
    IsSome(b_cmd) =>
        LET args == Unwrap(b_cmd).args
            nc == IF IsSome(b_restic.password_command) THEN 2 ELSE 0
            nv == IF b_verbose THEN 1 ELSE 0
            nd == Len(b_backup.directories)
            ne == Len(b_backup.exclude)
            nr == IF b_dry_run THEN 1 ELSE 0
            dbase == 3 + nc + nv
            ebase == dbase + nd
        IN  /\ Unwrap(b_cmd).program = "restic"
            /\ Len(args) = 3 + nc + nv + nd + 2 * ne + nr
            /\ args[1] = "backup"
            /\ args[2] = "--repo"
            /\ args[3] = b_restic.repository
            /\ IsSome(b_restic.password_command) =>
                   /\ args[4] = "--password-command"
                   /\ args[5] = Unwrap(b_restic.password_command)
            /\ b_verbose => args[3 + nc + 1] = "--verbose"
            /\ \A k \in 1..nd : args[dbase + k] = b_backup.directories[k]
            /\ \A k \in 1..ne :
                   /\ args[ebase + 2 * k - 1] = "--exclude"
                   /\ args[ebase + 2 * k] = b_backup.exclude[k]
            /\ b_dry_run => args[Len(args)] = "--dry-run"

C5_Witness ==
    /\ IsSome(b_cmd)
    /\ IsSome(b_restic.password_command) /\ IsSome(b_restic.password)
    /\ IsSome(b_restic.ssh_command)
    /\ b_verbose /\ b_dry_run
    /\ b_backup.directories = <<"/home", "/home">>
    /\ Len(b_backup.exclude) = 2
    /\ Len(Unwrap(b_cmd).args) = 13

HintShown(heading) == \E k \in 1..Len(cli_console) : cli_console[k] = heading

\* C10: after a child that exited, on the dry-run and on the real branch:
\* the repository hint is printed iff the exit failed and the lower-cased
\* stderr contains one of the three repository phrases; the password hint
\* iff the exit failed and the lower-cased stderr contains "password";
\* each independently of the other; none after a successful exit.
C10_HintsFollowStderr ==
    (cli_pc = "exit" /\ cli_child.state = "exited") =>
        LET failed == ~StatusSuccess(cli_child.code)
            lower == to_lowercase(cli_child.stderr)
        IN  /\ HintShown("\nSUGGESTION:") <=>
                   /\ failed
                   /\ \/ Contains(lower, "unable to open config file")
                      \/ Contains(lower, "is there a repository")
                      \/ Contains(lower, "repository not found")
            /\ HintShown("\nPASSWORD ERROR:") <=>
                   (failed /\ Contains(lower, "password"))

C10_Witness ==
    /\ cli_pc = "exit" /\ cli_child.state = "exited"
    /\ ~cli_dry_run
    /\ ~StatusSuccess(cli_child.code)
    /\ HintShown("\nSUGGESTION:") /\ HintShown("\nPASSWORD ERROR:")
    /\ ~Contains(cli_child.stderr, "password")

\* C11: a finished command-line run has exit code 0 iff its restic child
\* was spawned and exited successfully, and a non-zero code otherwise: when
\* the child could not be spawned, when it exited with a failure or was
\* ended by a signal, when config.yaml could not be loaded and when the
\* logger could not be set up; in the last two cases no restic process was
\* spawned.  A spawn is only ever attempted when none was attempted before
\* in the run, and a finished run takes no further step.
C11_ExitCodeFollowsChild ==
    /\ [](cli_pc = "exit" =>
            /\ IsSome(cli_exit)
            /\ cli_exit = Some(0) <=>
                   /\ cli_child.state = "exited"
                   /\ StatusSuccess(cli_child.code)
            /\ cli_cmd = None => cli_child.state = "none")
    /\ [](cli_pc # "exit" => cli_exit = None)
    /\ [][/\ (cli_child'.state \in {"running", "spawn_failed"}
                /\ cli_child'.state # cli_child.state)
               => cli_child.state = "none"
           /\ cli_pc # "exit"]_cli_vars

\* Config-load failure.
C11_Witness ==
    /\ cli_pc = "exit" /\ cli_exit = Some(1)
    /\ cli_config = None /\ cli_child.state = "none"

\* Log-setup failure.
C11_WitnessLogSetup ==
    /\ cli_pc = "exit" /\ cli_exit = Some(1)
    /\ IsSome(cli_config) /\ cli_cmd = None /\ cli_child.state = "none"

(***************************************************************************)
(* Claims about the service.                                               *)
(***************************************************************************)
Updates == {i \in Reqs : kind[i] = "update"}

\* C1: once every update request has completed (none with a failed file
\* write), the in-memory configuration is the one the final contents of
\* the config file parse to, for any interleaving of the updates.
C1_MemoryMatchesFile ==
    (\A i \in Updates : pc[i] = "done" /\ resp[i].status # 500) =>
        ParseYaml(file) = Some(config)

\* C6: an update whose YAML does not parse is answered 400 in the step that
\* parses it, and that step changes neither the in-memory configuration nor
\* the config file; such a request never reaches the write or the swap.
C6_InvalidUpdateRejected ==
    /\ [](\A i \in Updates :
              ~IsSome(ParseYaml(payload[i].yaml)) =>
                  /\ pc[i] \in {"start", "done"}
                  /\ pc[i] = "done" => resp[i].status = 400)
    /\ [][\A i \in Reqs :
              (/\ kind[i] = "update" /\ pc[i] = "start"
               /\ ~IsSome(ParseYaml(payload[i].yaml))
               /\ pc'[i] # pc[i])
                  => (/\ config' = config
                      /\ file' = file
                      /\ pc'[i] = "done"
                      /\ resp'[i].status = 400)]_vars

C6_Witness ==
    \E i, j \in Reqs :
        /\ kind[i] = "update" /\ ~IsSome(ParseYaml(payload[i].yaml))
        /\ pc[i] = "done" /\ resp[i].status = 400
        /\ kind[j] = "update" /\ pc[j] = "done" /\ resp[j].status = 200
        /\ config = ConfigB /\ file = YamlB

\* C7: every trigger request is answered, with 200 and exactly success,
\* the message and the dry_run flag of the request (false when absent),
\* whatever becomes of the backup it started: also when the child fails,
\* cannot be spawned or never exits.
C7_TriggerAcknowledged ==
    /\ [](\A i \in Reqs :
              (kind[i] = "trigger" /\ pc[i] = "done") =>
                  LET d == payload[i].dry_run = Some(TRUE)
                  IN  /\ resp[i].status = 200
                      /\ resp[i].body =
                             [success |-> TRUE,
                              message |-> IF d THEN "Dry run backup triggered"
                                          ELSE "Backup triggered",
                              dry_run |-> d])
    /\ \A i \in Reqs :
           (kind[i] = "trigger" /\ pc[i] = "start") ~> (pc[i] = "done")

C7_Witness ==
    \E i \in Reqs :
        /\ kind[i] = "trigger" /\ payload[i].dry_run = None
        /\ pc[i] = "done" /\ resp[i].status = 200
        /\ task[i].state = "running" /\ proc[i].state = "running"

\* C8 as stated: every request the service starts handling is eventually
\* answered, even if the restic processes it caused never exit.
C8_EveryRequestAnswered ==
    \A i \in Reqs : (pc[i] = "start") ~> (pc[i] = "done")

\* C8 as amended: every request other than GET /api/snapshots is eventually
\* answered even if restic hangs; GET /api/snapshots is answered unless its
\* child hangs, and never while its child has not exited.
C8_OnlySnapshotsAwaitsChild ==
    /\ \A i \in Reqs :
           (pc[i] = "start" /\ kind[i] # "snapshots") ~> (pc[i] = "done")
    /\ \A i \in Reqs :
           (pc[i] = "start" /\ kind[i] = "snapshots")
               ~> (pc[i] = "done" \/ proc[i].state = "hung")
    /\ [](\A i \in Reqs :
              (kind[i] = "snapshots" /\ proc[i].state \in {"running", "hung"})
                  => pc[i] = "s_wait")

C8_Witness ==
    \E i, j \in Reqs :
        /\ kind[i] = "snapshots" /\ proc[i].state = "hung" /\ pc[i] = "s_wait"
        /\ kind[j] = "trigger" /\ proc[j].state = "hung" /\ pc[j] = "done"

ConfigAt(i) == hist[local[i].acq_epoch]

\* C9: a handler that took its read guard before an update's swap reads
\* every field from the configuration of that moment, and no swap happens
\* while it holds the guard; a handler that took it after the swap reads the
\* configuration the update installed (or a later one); the child of a
\* triggered backup is built from the values copied at trigger time, also
\* when the configuration was replaced before the child was spawned.
C9_ReadsAreSnapshots ==
    /\ \A i \in rw_readers : local[i].acq_epoch = Len(hist)
    /\ config = hist[Len(hist)]
    /\ \A i \in Updates :
           (pc[i] = "done" /\ resp[i].status = 200) =>
               hist[local[i].acq_epoch] = Unwrap(ParseYaml(payload[i].yaml))
    /\ \A i \in Reqs :
           /\ (kind[i] = "get_config" /\ pc[i] = "done") =>
                  resp[i].body = GetConfigJson(ConfigAt(i).backup,
                                               ConfigAt(i).logging,
                                               ConfigAt(i).restic)
           /\ (kind[i] = "trigger" /\ IsSome(local[i].backup_config)) =>
                  Unwrap(local[i].backup_config) = ConfigAt(i).backup
           /\ (kind[i] = "trigger" /\ IsSome(local[i].restic_config)) =>
                  Unwrap(local[i].restic_config) = ConfigAt(i).restic
           /\ (kind[i] = "trigger" /\ proc[i].state # "none") =>
                  proc[i].cmd =
                      Some(BackupCommand(ConfigAt(i).backup, ConfigAt(i).restic,
                                         payload[i].dry_run = Some(TRUE), TRUE))
           /\ (kind[i] = "snapshots" /\ proc[i].state # "none") =>
                  proc[i].cmd = Some(SnapshotsCommand(ConfigAt(i).restic))

C9_Witness ==
    \E i, j \in Reqs :
        /\ kind[i] = "trigger" /\ proc[i].state = "running"
        /\ kind[j] = "update" /\ pc[j] = "done" /\ resp[j].status = 200
        /\ local[i].acq_epoch < local[j].acq_epoch
        /\ local[j].acq_epoch <= proc[i].spawn_epoch
        /\ config # ConfigAt(i)
        /\ proc[i].cmd = Some(BackupCommand(ConfigA.backup, ConfigA.restic,
                                            FALSE, TRUE))

\* C12: the in-memory configuration is replaced only by an update whose
\* YAML parsed and whose write of that YAML to the config file succeeded:
\* every Config the memory ever held after the first was installed by such
\* an update and is the parse of its YAML; an update whose write failed is
\* answered 500 in that step, which leaves the memory as it was, and it
\* never installs its Config.
C12_SwapOnlyAfterWrite ==
    /\ [](/\ config = hist[Len(hist)]
          /\ \A k \in 2..Len(hist) :
                 \E i \in Updates :
                     /\ local[i].acq_epoch = k
                     /\ local[i].written
                     /\ Some(hist[k]) = ParseYaml(payload[i].yaml)
          /\ \A i \in Updates :
                 /\ resp[i].status = 500 =>
                        ~local[i].written /\ local[i].acq_epoch = 0
                 /\ pc[i] \in {"u_lock", "u_swap"} => local[i].written)
    /\ [][/\ config' # config =>
                (\E j \in Updates :
                     /\ pc[j] = "u_swap" /\ local[j].written
                     /\ Some(config') = ParseYaml(payload[j].yaml))
           /\ \A i \in Reqs :
                  (kind[i] = "update" /\ pc[i] = "u_write" /\ pc'[i] # pc[i]
                   /\ ~local'[i].written)
                      => (/\ pc'[i] = "done" /\ resp'[i].status = 500
                          /\ config' = config /\ hist' = hist)]_vars

C12_Witness ==
    \E i, j \in Updates :
        /\ pc[i] = "done" /\ resp[i].status = 500 /\ ~local[i].written
        /\ file = ""
        /\ pc[j] = "done" /\ resp[j].status = 200 /\ local[j].written
        /\ Some(config) = ParseYaml(payload[j].yaml)
        /\ payload[i].yaml # payload[j].yaml

Triggers == {i \in Reqs : kind[i] = "trigger"}

\* C13: nothing stands between overlapping backups.  Whatever the tasks and
\* children of other requests are doing, a trigger request past its read
\* guard can take its next step, it waits for its guard only while an
\* update holds the write guard, its queued task can start its child, every
\* trigger that got as far as line 133 has spawned a task of its own, and
\* every answer to a trigger is the 200 acknowledgment.  (That two backup
\* children run at once against one repository is C13_Witness.)
C13_NoAdmissionControl ==
    \A i \in Triggers :
        /\ pc[i] = "done" =>
               /\ resp[i].status = 200
               /\ resp[i].body = TriggerBody(local[i].dry_run)
        /\ pc[i] \in {"t_respond", "done"} => task[i].state # "none"
        /\ (pc[i] = "start" /\ rw_writer = None) => ENABLED TrigAcquire(i)
        /\ pc[i] \in {"t_backup", "t_restic", "t_drop", "t_spawn", "t_respond"}
               => ENABLED Handler(i)
        /\ task[i].state = "queued" => ENABLED TaskRun(i)

\* Two backup children of the service run at once against one repository,
\* and both triggers were acknowledged.
C13_Witness ==
    \E i, j \in Triggers :
        /\ i # j
        /\ proc[i].state = "running" /\ proc[j].state = "running"
        /\ Unwrap(proc[i].cmd).args[1] = "backup"
        /\ Unwrap(proc[j].cmd).args[1] = "backup"
        /\ SubSeq(Unwrap(proc[i].cmd).args, 2, 3)
               = SubSeq(Unwrap(proc[j].cmd).args, 2, 3)
        /\ pc[i] = "done" /\ resp[i].status = 200
        /\ pc[j] = "done" /\ resp[j].status = 200

\* C14: a request whose restic child is running or hangs holds no guard of
\* the configuration lock, and neither does a request whose background task
\* is queued or running; so an update that waits for the write guard gets
\* it and is answered 200, whatever children run or hang.
C14_NoLockWhileChildRuns ==
    /\ [](\A i \in Reqs :
              (\/ proc[i].state \in {"running", "hung"}
               \/ task[i].state \in {"queued", "running"})
                  => (i \notin rw_readers /\ rw_writer # Some(i)))
    /\ \A j \in Reqs :
           (kind[j] = "update" /\ pc[j] = "u_lock")
               ~> (pc[j] = "done" /\ resp[j].status = 200)

\* An update took the write guard and completed after a child that hangs
\* had been spawned for a trigger or a snapshots request.
C14_Witness ==
    \E i, j \in Reqs :
        /\ kind[i] \in {"trigger", "snapshots"}
        /\ proc[i].state = "hung"
        /\ kind[j] = "update" /\ pc[j] = "done" /\ resp[j].status = 200
        /\ local[j].acq_epoch > proc[i].spawn_epoch

====
